---- MODULE Spec2Model ----
(***************************************************************************)
(* Model of the backtest endpoint of backend/app/api/v1/routes.py          *)
(* (sma_crossover_backtest): parameter validation, bar retrieval, the      *)
(* per-strategy position series, the signal series, the per-bar ledger     *)
(* loop, the end-of-run liquidation, the metrics and the persisted record. *)
(*                                                                         *)
(* Numbers.  Python floats are modelled as exact rationals.  Closes are    *)
(* whole currency units, fee_rate is a whole number of basis points, so    *)
(* every monetary value of the ledger is a whole number of Scale-ths of a  *)
(* currency unit (1/10000): cash, equity and trade figures are integers in *)
(* that unit.  round(x, 2) is rounding to a multiple of Scale \div 100.    *)
(* Indicator values (EMA, MACD, RSI) are pairs <<numerator, denominator>>. *)
(***************************************************************************)
EXTENDS Integers, Sequences, FiniteSets, TLC

VARIABLES
  req,               \* the query parameters of the request
  pc,                \* position of the handler
  response,          \* [status, detail] of the HTTP response, status 0 while running
  closes,            \* history["Close"] as fetched (line 184)
  history,           \* the rows of the frame, trimmed in place by dropna
  rsi,               \* history["rsi"] of the kept rows (RSI strategy only)
  position,          \* history["position"]
  signal,            \* history["signal"]
  row,               \* index of the next row of the simulation loop
  cash, shares, entry_price, entry_shares, completed_trades, wins,
  equity_curve, trades,
  metrics,           \* the metrics of lines 317-331
  db,                \* the backtests table
  inputs,            \* two invocations: the series, capital and fee each one is given
  runs,              \* two invocations: [pc, row, result] of each one
  frames,            \* two invocations: the local variables of lines 240-247, per call frame
  clock,             \* two invocations: the wall clock, one tick per step
  profiles,          \* the rows of the strategy_profiles table
  next_id,           \* the next value of its autoincrement primary key
  calls,             \* strategy-profile requests: [op, pc, ...] of each request in flight
  reply              \* strategy-profile requests: the answer given by the last step

backtestVars == <<req, pc, response, closes, history, rsi, position, signal, row,
                  cash, shares, entry_price, entry_shares, completed_trades, wins,
                  equity_curve, trades, metrics, db>>

pairVars == <<inputs, runs, frames, clock>>

storeVars == <<profiles, next_id, calls, reply>>

vars == <<backtestVars, pairVars, storeVars>>

ledger == <<cash, shares, entry_price, entry_shares, completed_trades, wins,
            equity_curve, trades>>

frame == <<closes, history, rsi, position, signal>>

----------------------------------------------------------------------------
(* Bounds and input sets *)

MaxBars == 4

Prices == {0, 1, 2, 5}

Capitals == {3, 10}

FeeBps == {0, 5}

Scale == 100 * 100

None == -1

NoError == "none"

----------------------------------------------------------------------------
(* Exact rationals <<n, d>> with d > 0 *)

Abs(x) == IF x < 0 THEN -x ELSE x

RECURSIVE GCD(_, _)
GCD(a, b) == IF b = 0 THEN a ELSE GCD(b, a % b)

RNorm(q) ==
  LET g == GCD(Abs(q[1]), q[2])
  IN  IF g = 0 THEN q ELSE <<q[1] \div g, q[2] \div g>>

RInt(x) == <<x, 1>>

RAdd(p, q) == RNorm(<<p[1] * q[2] + q[1] * p[2], p[2] * q[2]>>)

RSub(p, q) == RNorm(<<p[1] * q[2] - q[1] * p[2], p[2] * q[2]>>)

RScale(k, q) == RNorm(<<k * q[1], q[2]>>)

RDivInt(q, k) == RNorm(<<q[1], q[2] * k>>)

RLt(p, q) == p[1] * q[2] < q[1] * p[2]

RGt(p, q) == RLt(q, p)

RLe(p, q) == ~RLt(q, p)

----------------------------------------------------------------------------
(* Indicator library: pandas rolling / ewm / diff on the close series *)

RECURSIVE SumLast(_, _, _)
SumLast(x, i, w) == IF w = 0 THEN 0 ELSE x[i] + SumLast(x, i - 1, w - 1)

\* closes.rolling(window).mean() is NaN until `window` values are seen
RollingDefined(i, window) == i >= window

RollingMean(x, i, window) == RNorm(<<SumLast(x, i, window), window>>)

\* closes.ewm(span, adjust=False).mean(): alpha = 2/(span+1), seeded with x[1]
RECURSIVE Ewm(_, _, _)
Ewm(x, span, i) ==
  IF i = 1 THEN x[1]
  ELSE RDivInt(RAdd(RScale(2, x[i]), RScale(span - 1, Ewm(x, span, i - 1))), span + 1)

AsRationals(c) == [k \in 1..Len(c) |-> RInt(c[k])]

\* macd_line = ewm(fast) - ewm(slow); signal_line = ewm of macd_line
MacdLine(c, fast, slow) ==
  [k \in 1..Len(c) |-> RSub(Ewm(AsRationals(c), fast, k), Ewm(AsRationals(c), slow, k))]

SignalLine(c, fast, slow, sig, i) == Ewm(MacdLine(c, fast, slow), sig, i)

\* delta = closes.diff(); up = delta.clip(lower=0); down = -delta.clip(upper=0)
Up(c) == [k \in 1..Len(c) |-> IF k > 1 /\ c[k] > c[k-1] THEN c[k] - c[k-1] ELSE 0]

Down(c) == [k \in 1..Len(c) |-> IF k > 1 /\ c[k] < c[k-1] THEN c[k-1] - c[k] ELSE 0]

\* delta[1] is NaN, so a window is full only from row window + 1 on;
\* roll_down.replace(0, nan) makes rs, hence rsi, NaN where no loss is in the window
RsiDefined(c, i, window) ==
  /\ i >= window + 1
  /\ SumLast(Down(c), i, window) # 0

\* 100 - 100 / (1 + roll_up / roll_down) = 100 * roll_up / (roll_up + roll_down)
Rsi(c, i, window) ==
  LET u == SumLast(Up(c), i, window)
      d == SumLast(Down(c), i, window)
  IN  RNorm(<<100 * u, u + d>>)

----------------------------------------------------------------------------
(* Signal generation, lines 186-226 *)

Strategies == {"sma", "ema", "rsi", "macd", "buyhold"}

\* history.dropna(subset=[...]): the rows whose indicator columns are all defined
Keep(r, c, i) ==
  CASE r.strategy_type = "sma" ->
         RollingDefined(i, r.short_window) /\ RollingDefined(i, r.long_window)
    [] r.strategy_type = "rsi" -> RsiDefined(c, i, r.rsi_window)
    [] OTHER -> TRUE

RECURSIVE KeptFrom(_, _, _)
KeptFrom(r, c, i) ==
  IF i > Len(c) THEN <<>>
  ELSE (IF Keep(r, c, i) THEN <<i>> ELSE <<>>) \o KeptFrom(r, c, i + 1)

KeptRows(r, c) == KeptFrom(r, c, 1)

\* (rsi < oversold).astype(int), then .where(rsi <= overbought, 0)
RsiPosition(x, oversold, overbought) ==
  LET entered == IF RLt(x, RInt(oversold)) THEN 1 ELSE 0
  IN  IF RLe(x, RInt(overbought)) THEN entered ELSE 0

\* the position column of one kept row i of the fetched series c
PositionAt(r, c, i) ==
  CASE r.strategy_type = "sma" ->
         IF RGt(RollingMean(c, i, r.short_window), RollingMean(c, i, r.long_window))
         THEN 1 ELSE 0
    [] r.strategy_type = "ema" ->
         IF RGt(Ewm(AsRationals(c), r.ema_fast, i), Ewm(AsRationals(c), r.ema_slow, i))
         THEN 1 ELSE 0
    [] r.strategy_type = "rsi" ->
         RsiPosition(Rsi(c, i, r.rsi_window), r.rsi_oversold, r.rsi_overbought)
    [] r.strategy_type = "macd" ->
         IF RGt(MacdLine(c, r.macd_fast, r.macd_slow)[i],
                SignalLine(c, r.macd_fast, r.macd_slow, r.macd_signal, i))
         THEN 1 ELSE 0
    [] r.strategy_type = "buyhold" -> 1

\* history["position"].diff().fillna(0): the first row's NaN becomes 0
DiffFillna(p) == [k \in 1..Len(p) |-> IF k = 1 THEN 0 ELSE p[k] - p[k-1]]

----------------------------------------------------------------------------
(* Requests *)

Tags == Strategies \cup {"other"}

\* window parameters: all ordered; only SMA's, only EMA's, only MACD's unordered
WindowChoices ==
  { [short_window |-> 1, long_window |-> 2, ema_fast |-> 1, ema_slow |-> 2,
     macd_fast |-> 1, macd_slow |-> 2, macd_signal |-> 2],
    [short_window |-> 2, long_window |-> 2, ema_fast |-> 1, ema_slow |-> 2,
     macd_fast |-> 1, macd_slow |-> 2, macd_signal |-> 2],
    [short_window |-> 1, long_window |-> 2, ema_fast |-> 2, ema_slow |-> 2,
     macd_fast |-> 1, macd_slow |-> 2, macd_signal |-> 2],
    [short_window |-> 1, long_window |-> 2, ema_fast |-> 1, ema_slow |-> 2,
     macd_fast |-> 2, macd_slow |-> 2, macd_signal |-> 2] }

Requests ==
  { [strategy_type |-> t,
     short_window |-> w.short_window, long_window |-> w.long_window,
     ema_fast |-> w.ema_fast, ema_slow |-> w.ema_slow,
     macd_fast |-> w.macd_fast, macd_slow |-> w.macd_slow,
     macd_signal |-> w.macd_signal,
     rsi_window |-> 2, rsi_oversold |-> 30, rsi_overbought |-> 70,
     initial_capital |-> k, fee_rate |-> f] :
       t \in Tags, w \in WindowChoices, k \in Capitals, f \in FeeBps }

RECURSIVE SeqsUpTo(_, _)
SeqsUpTo(S, n) ==
  IF n = 0 THEN {<<>>}
  ELSE LET shorter == SeqsUpTo(S, n - 1)
       IN  shorter \cup {Append(s, x) : s \in {t \in shorter : Len(t) = n - 1}, x \in S}

\* a non-empty frame returned by ticker.history
BarSeqs == SeqsUpTo(Prices, MaxBars) \ {<<>>}

Pending == [status |-> 0, detail |-> "pending"]

NoMetrics == [computed |-> FALSE]

\* no pair of invocations is modelled
NoPair ==
  /\ inputs = <<>>
  /\ runs = <<>>
  /\ frames = <<>>
  /\ clock = 0

\* no strategy-profile request is modelled
NoStore ==
  /\ profiles = {}
  /\ next_id = 1
  /\ calls = <<>>
  /\ reply = <<>>

Init ==
  /\ req \in Requests
  /\ pc = "validate"
  /\ response = Pending
  /\ closes = <<>>
  /\ history = <<>>
  /\ rsi = <<>>
  /\ position = <<>>
  /\ signal = <<>>
  /\ row = 0
  /\ cash = 0
  /\ shares = 0
  /\ entry_price = None
  /\ entry_shares = 0
  /\ completed_trades = 0
  /\ wins = 0
  /\ equity_curve = <<>>
  /\ trades = <<>>
  /\ metrics = NoMetrics
  /\ db = <<>>
  /\ NoPair
  /\ NoStore

----------------------------------------------------------------------------
(* Lines 163-168: parameter ordering checks *)

\* mutant: the EMA ordering check applied whatever the strategy
ValidationError_NoVariantGuard(r) ==
  IF r.strategy_type = "sma" /\ r.short_window >= r.long_window
  THEN "short_window must be less than long_window for SMA."
  ELSE IF r.ema_fast >= r.ema_slow
  THEN "ema_fast must be less than ema_slow."
  ELSE IF r.strategy_type = "macd" /\ r.macd_fast >= r.macd_slow
  THEN "macd_fast must be less than macd_slow."
  ELSE NoError

ValidationError(r) ==
  IF r.strategy_type \in {"sma", "ema"} /\ r.short_window >= r.long_window
     /\ r.strategy_type = "sma"
  THEN "short_window must be less than long_window for SMA."
  ELSE IF r.strategy_type = "ema" /\ r.ema_fast >= r.ema_slow
  THEN "ema_fast must be less than ema_slow."
  ELSE IF r.strategy_type = "macd" /\ r.macd_fast >= r.macd_slow
  THEN "macd_fast must be less than macd_slow."
  ELSE NoError

Validate ==
  /\ pc = "validate"
  /\ IF ValidationError(req) # NoError
     THEN /\ pc' = "error"
          /\ response' = [status |-> 400, detail |-> ValidationError(req)]
     ELSE /\ pc' = "fetch"
          /\ UNCHANGED response
  /\ UNCHANGED <<req, frame, row, ledger, metrics, db, pairVars, storeVars>>

(* Lines 170-180: yfinance raises, returns an empty frame, or returns bars *)

FetchRaises ==
  /\ pc = "fetch"
  /\ pc' = "error"
  /\ response' = [status |-> 500, detail |-> "Error fetching data"]
  /\ UNCHANGED <<req, frame, row, ledger, metrics, db, pairVars, storeVars>>

FetchEmpty ==
  /\ pc = "fetch"
  /\ pc' = "error"
  /\ response' = [status |-> 404, detail |-> "No data returned for symbol"]
  /\ UNCHANGED <<req, frame, row, ledger, metrics, db, pairVars, storeVars>>

FetchBars ==
  /\ pc = "fetch"
  /\ \E bars \in BarSeqs :
       /\ closes' = bars
       /\ history' = [k \in 1..Len(bars) |-> [timestamp |-> k, close |-> bars[k]]]
  /\ pc' = "signals"
  /\ UNCHANGED <<req, response, rsi, position, signal, row, ledger, metrics, db, pairVars, storeVars>>

(* Lines 186-247: indicator columns, dropna, position, signal, ledger set-up *)

Unsupported ==
  /\ pc = "signals"
  /\ req.strategy_type \notin Strategies
  /\ pc' = "error"
  /\ response' = [status |-> 400, detail |-> "Unsupported strategy_type."]
  /\ UNCHANGED <<req, frame, row, ledger, metrics, db, pairVars, storeVars>>

ComputeSignals ==
  /\ pc = "signals"
  /\ req.strategy_type \in Strategies
  /\ LET kept == KeptRows(req, closes)
         pos  == [k \in 1..Len(kept) |-> PositionAt(req, closes, kept[k])]
     IN  /\ history' = [k \in 1..Len(kept) |-> history[kept[k]]]
         /\ rsi' = IF req.strategy_type = "rsi"
                   THEN [k \in 1..Len(kept) |-> Rsi(closes, kept[k], req.rsi_window)]
                   ELSE <<>>
         /\ position' = pos
         /\ signal' = DiffFillna(pos)
  /\ cash' = req.initial_capital * Scale
  /\ shares' = 0
  /\ entry_price' = None
  /\ entry_shares' = 0
  /\ completed_trades' = 0
  /\ wins' = 0
  /\ equity_curve' = <<>>
  /\ trades' = <<>>
  /\ row' = 1
  /\ pc' = "loop"
  /\ UNCHANGED <<req, response, closes, metrics, db, pairVars, storeVars>>

----------------------------------------------------------------------------
(* Lines 249-293: the per-bar ledger loop *)

\* round(x, 2) of a float whose exact value is x units.  A value exactly
\* half-way between two cents has no exact binary representation, so the
\* float being rounded lies on either side of the tie: both cents are possible.
Round2(x) ==
  LET cent == Scale \div 100
      lo   == (x \div cent) * cent
      r    == x % cent
  IN  IF 2 * r < cent THEN {lo}
      ELSE IF 2 * r > cent THEN {lo + cent}
      ELSE {lo, lo + cent}

\* mutant: the share count rounded up instead of down
BuyShares_RoundsUp(c, price) == (c + price * Scale - 1) \div (price * Scale)

\* int(cash // price): floor division, price a non-zero close
BuyShares(c, price) == c \div (price * Scale)

\* mutant: the commission left out of the debit
BuyDebit_NoCommission(n, price, fee) == n * price * Scale

\* cost + commission, cost = shares * price, commission = cost * fee_rate
BuyDebit(n, price, fee) == n * price * Scale + n * price * fee

\* proceeds - commission, proceeds = shares * price, commission = proceeds * fee_rate
SellCredit(n, price, fee) == n * price * Scale - n * price * fee

\* mutant: a breakeven exit counted as a win
IsWin_NotStrict(price, entry) == price >= entry

\* if price > entry_price: wins += 1
IsWin(price, entry) == price > entry

\* mutant: the holdings left out of the bar's equity
EquityValue_CashOnly(c, n, price) == c

\* equity = cash + shares * price (line 292)
EquityValue(c, n, price) == c + n * price * Scale

\* mutant: the post-liquidation value appended as a new point
LiquidatedCurve_Extends(eq, e) ==
  Append(eq, [timestamp |-> eq[Len(eq)].timestamp, equity |-> e])

\* equity_curve[-1]["equity"] = round(cash, 2) (line 315)
LiquidatedCurve(eq, e) == [eq EXCEPT ![Len(eq)].equity = e]

\* if entry_price is not None and entry_shares:
ClosesRoundTrip(entry, n) == entry # None /\ n # 0

Trade(ts, side, price, n, equity) ==
  [timestamp |-> ts, side |-> side, price |-> price, shares |-> n,
   equity_after_trade |-> equity]

\* line 255 with a close of 0: float floor division by zero, an uncaught exception
BuyDivisionByZero ==
  /\ pc = "loop"
  /\ row <= Len(history)
  /\ signal[row] = 1 /\ shares = 0
  /\ history[row].close = 0
  /\ pc' = "error"
  /\ response' = [status |-> 500, detail |-> "ZeroDivisionError"]
  /\ UNCHANGED <<req, frame, row, ledger, metrics, db, pairVars, storeVars>>

BarStep ==
  /\ pc = "loop"
  /\ row <= Len(history)
  /\ LET price   == history[row].close
         ts      == history[row].timestamp
         buying  == signal[row] = 1 /\ shares = 0
         selling == signal[row] = -1 /\ shares > 0
     IN  /\ ~(buying /\ price = 0)
         /\ LET n       == IF buying THEN BuyShares(cash, price) ELSE shares
                bought  == buying /\ n > 0
                cash1   == IF bought THEN cash - BuyDebit(n, price, req.fee_rate)
                           ELSE IF selling
                           THEN cash + SellCredit(shares, price, req.fee_rate)
                           ELSE cash
                shares1 == IF selling THEN 0 ELSE n
                closed  == selling /\ ClosesRoundTrip(entry_price, entry_shares)
            IN  \E e \in Round2(EquityValue(cash1, shares1, price)) :
                  /\ cash' = cash1
                  /\ shares' = shares1
                  /\ entry_price' = IF bought THEN price
                                    ELSE IF selling THEN None ELSE entry_price
                  /\ entry_shares' = IF bought THEN n
                                     ELSE IF selling THEN 0 ELSE entry_shares
                  /\ trades' = IF bought
                               THEN Append(trades, Trade(ts, "BUY", price, n, e))
                               ELSE IF selling
                               THEN Append(trades, Trade(ts, "SELL", price, shares, e))
                               ELSE trades
                  /\ completed_trades' = IF closed THEN completed_trades + 1
                                         ELSE completed_trades
                  /\ wins' = IF closed /\ IsWin(price, entry_price) THEN wins + 1
                             ELSE wins
                  /\ equity_curve' = Append(equity_curve, [timestamp |-> ts, equity |-> e])
  /\ row' = row + 1
  /\ UNCHANGED <<req, pc, response, frame, metrics, db, pairVars, storeVars>>

(* Lines 295-315: close any open position at the last row *)

Liquidate ==
  /\ pc = "loop"
  /\ row > Len(history)
  /\ shares > 0
  /\ LET last   == history[Len(history)]
         price  == last.close
         cash1  == cash + SellCredit(shares, price, req.fee_rate)
         closed == ClosesRoundTrip(entry_price, entry_shares)
     IN  \E e \in Round2(cash1) :
           /\ cash' = cash1
           /\ trades' = Append(trades, Trade(last.timestamp, "SELL", price, shares, e))
           /\ completed_trades' = IF closed THEN completed_trades + 1
                                  ELSE completed_trades
           /\ wins' = IF closed /\ IsWin(price, entry_price) THEN wins + 1 ELSE wins
           /\ shares' = 0
           /\ equity_curve' = LiquidatedCurve(equity_curve, e)
  /\ pc' = "metrics"
  /\ UNCHANGED <<req, response, frame, row, entry_price, entry_shares, metrics, db, pairVars, storeVars>>

NoLiquidation ==
  /\ pc = "loop"
  /\ row > Len(history)
  /\ ~(shares > 0)
  /\ pc' = "metrics"
  /\ UNCHANGED <<req, response, frame, row, ledger, metrics, db, pairVars, storeVars>>

----------------------------------------------------------------------------
(* Lines 317-331: metrics *)

\* pd.DataFrame([]) has no "timestamp" column: set_index raises KeyError
EmptyCurveRaises ==
  /\ pc = "metrics"
  /\ equity_curve = <<>>
  /\ pc' = "error"
  /\ response' = [status |-> 500, detail |-> "KeyError"]
  /\ UNCHANGED <<req, frame, row, ledger, metrics, db, pairVars, storeVars>>

\* pct_change().dropna(): eq[k] / eq[k-1] - 1; 0/0 is NaN and dropped,
\* x/0 is infinite ("inf")
ReturnAt(eq, k) ==
  IF eq[k-1].equity = 0
  THEN (IF eq[k].equity = 0 THEN "nan" ELSE "inf")
  ELSE IF eq[k-1].equity > 0
  THEN RNorm(<<eq[k].equity - eq[k-1].equity, eq[k-1].equity>>)
  ELSE RNorm(<<eq[k-1].equity - eq[k].equity, -eq[k-1].equity>>)

RECURSIVE ReturnsFrom(_, _)
ReturnsFrom(eq, k) ==
  IF k > Len(eq) THEN <<>>
  ELSE (IF ReturnAt(eq, k) = "nan" THEN <<>> ELSE <<ReturnAt(eq, k)>>)
       \o ReturnsFrom(eq, k + 1)

Returns(eq) == ReturnsFrom(eq, 2)

\* a deviation test that lets a single observation through
StdPositive_OneObservation(rs) ==
  /\ Len(rs) >= 1
  /\ \A k \in 1..Len(rs) : rs[k] # "inf"
  /\ Len(rs) = 1 \/ \E k \in 2..Len(rs) : rs[k] # rs[1]

\* returns.std() > 0: the sample deviation is NaN for one observation or an
\* infinite one, and 0 when all observations are equal
StdPositive(rs) ==
  /\ Len(rs) >= 2
  /\ \A k \in 1..Len(rs) : rs[k] # "inf"
  /\ \E k \in 2..Len(rs) : rs[k] # rs[1]

\* line 320: TRUE when the else branch sets sharpe = 0.0
SharpeFallback(eq) ==
  LET rs == Returns(eq)
  IN  ~(Len(rs) > 0 /\ StdPositive(rs))

\* a win rate that reads "no lost trade" as 1 when nothing was traded
WinRate_DefaultsToOne(w, n) == IF n > 0 THEN RNorm(<<w, n>>) ELSE RInt(1)

WinRate(w, n) == IF n > 0 THEN RNorm(<<w, n>>) ELSE RInt(0)

\* equity_curve[-1]["equity"] / initial_capital - 1
TotalReturn(eq, capital) ==
  RNorm(<<eq[Len(eq)].equity - capital * Scale, capital * Scale>>)

ComputeMetrics ==
  /\ pc = "metrics"
  /\ equity_curve # <<>>
  /\ metrics' = [computed |-> TRUE,
                 sharpe_fallback |-> SharpeFallback(equity_curve),
                 win_rate     |-> WinRate(wins, completed_trades),
                 total_return |-> TotalReturn(equity_curve, req.initial_capital),
                 num_trades   |-> completed_trades]
  /\ pc' = "persist"
  /\ UNCHANGED <<req, response, frame, row, ledger, db, pairVars, storeVars>>

(* Lines 333-393: the record is added and committed, the response returned *)

\* round(q, digits) of the rational q, as the nearest multiple of 1/m
RoundTo(q, m) ==
  LET n  == q[1] * m
      d  == q[2]
      lo == n \div d
      r  == n % d
  IN  IF 2 * r < d THEN lo
      ELSE IF 2 * r > d THEN lo + 1
      ELSE IF lo % 2 = 0 THEN lo ELSE lo + 1

\* a store that takes the same record twice
Stored_Twice(d, rec) == Append(Append(d, rec), rec)

\* lines 367-368: db.add(record); db.commit()
Stored(d, rec) == Append(d, rec)

Record(r, m) ==
  [strategy_type   |-> r.strategy_type,
   initial_capital |-> r.initial_capital,
   fee_rate        |-> r.fee_rate,
   sharpe_fallback |-> m.sharpe_fallback,
   total_return    |-> RoundTo(m.total_return, 10000),
   win_rate        |-> RoundTo(m.win_rate, 1000),
   num_trades      |-> m.num_trades]

Persist ==
  /\ pc = "persist"
  /\ db' = Stored(db, Record(req, metrics))
  /\ response' = [status |-> 200, detail |-> "ok"]
  /\ pc' = "done"
  /\ UNCHANGED <<req, frame, row, ledger, metrics, pairVars, storeVars>>

----------------------------------------------------------------------------

Next ==
  \/ Validate
  \/ FetchRaises
  \/ FetchEmpty
  \/ FetchBars
  \/ Unsupported
  \/ ComputeSignals
  \/ BuyDivisionByZero
  \/ BarStep
  \/ Liquidate
  \/ NoLiquidation
  \/ EmptyCurveRaises
  \/ ComputeMetrics
  \/ Persist

Spec == Init /\ [][Next]_vars

----------------------------------------------------------------------------
(* Two invocations of the simulation (lines 240-331) running interleaved.  *)
(* The handler keeps the ledger in local variables, so every invocation    *)
(* has a call frame of its own; an invocation is given the trimmed closes, *)
(* the position series its strategy produced, initial_capital and fee_rate.*)

Invocations == {1, 2}

PairBars == 3

PairPrices == {1, 2}

\* the quiet state of the backtest handler while other requests are modelled
NoBacktest ==
  /\ req = <<>>
  /\ pc = "idle"
  /\ response = Pending
  /\ closes = <<>>
  /\ history = <<>>
  /\ rsi = <<>>
  /\ position = <<>>
  /\ signal = <<>>
  /\ row = 0
  /\ cash = 0
  /\ shares = 0
  /\ entry_price = None
  /\ entry_shares = 0
  /\ completed_trades = 0
  /\ wins = 0
  /\ equity_curve = <<>>
  /\ trades = <<>>
  /\ metrics = NoMetrics
  /\ db = <<>>

\* lines 240-247: the ledger a call starts from
FreshLocals(capital) ==
  [cash |-> capital * Scale, shares |-> 0, entry_price |-> None,
   entry_shares |-> 0, completed_trades |-> 0, wins |-> 0,
   equity_curve |-> <<>>, trades |-> <<>>]

\* a frame that no call has set up yet
NoLocals == FreshLocals(0)

\* one frame shared by every invocation, as module-level variables would be
FrameOf_Shared(i) == 1

\* the frame holding the locals of invocation i: its own
FrameOf(i) == i

\* trade and curve points stamped with the time of the step
Stamp_WallClock(ts, now) == now

\* line 250: ts is the index value of the row, not the time of the call
Stamp(ts, now) == ts

\* round(x, 2) as a function of x: float rounding is deterministic; on an
\* exact half cent the float lies on one side, the same one every time
Round2Of(x) == CHOOSE e \in Round2(x) : TRUE

\* lines 250-293 for row k of the series of x, on the locals l
BarLocals(l, x, k, now) ==
  LET price   == x.closes[k]
      ts      == Stamp(k, now)
      buying  == x.signal[k] = 1 /\ l.shares = 0
      selling == x.signal[k] = -1 /\ l.shares > 0
      n       == IF buying THEN BuyShares(l.cash, price) ELSE l.shares
      bought  == buying /\ n > 0
      cash1   == IF bought THEN l.cash - BuyDebit(n, price, x.fee_rate)
                 ELSE IF selling THEN l.cash + SellCredit(l.shares, price, x.fee_rate)
                 ELSE l.cash
      shares1 == IF selling THEN 0 ELSE n
      closed  == selling /\ ClosesRoundTrip(l.entry_price, l.entry_shares)
      e       == Round2Of(EquityValue(cash1, shares1, price))
  IN  [cash         |-> cash1,
       shares       |-> shares1,
       entry_price  |-> IF bought THEN price
                        ELSE IF selling THEN None ELSE l.entry_price,
       entry_shares |-> IF bought THEN n
                        ELSE IF selling THEN 0 ELSE l.entry_shares,
       completed_trades |-> IF closed THEN l.completed_trades + 1
                            ELSE l.completed_trades,
       wins         |-> IF closed /\ IsWin(price, l.entry_price) THEN l.wins + 1
                        ELSE l.wins,
       equity_curve |-> Append(l.equity_curve, [timestamp |-> ts, equity |-> e]),
       trades       |-> IF bought
                        THEN Append(l.trades, Trade(ts, "BUY", price, n, e))
                        ELSE IF selling
                        THEN Append(l.trades, Trade(ts, "SELL", price, l.shares, e))
                        ELSE l.trades]

\* lines 295-315 on the locals l: the open position sold at the last close
EndLocals(l, x, now) ==
  IF l.shares > 0
  THEN LET price  == x.closes[Len(x.closes)]
           ts     == Stamp(Len(x.closes), now)
           cash1  == l.cash + SellCredit(l.shares, price, x.fee_rate)
           closed == ClosesRoundTrip(l.entry_price, l.entry_shares)
           e      == Round2Of(cash1)
       IN  [l EXCEPT !.cash = cash1,
                     !.shares = 0,
                     !.completed_trades = IF closed THEN @ + 1 ELSE @,
                     !.wins = IF closed /\ IsWin(price, l.entry_price)
                              THEN @ + 1 ELSE @,
                     !.trades = Append(@, Trade(ts, "SELL", price, l.shares, e)),
                     !.equity_curve = LiquidatedCurve(@, e)]
  ELSE l

\* lines 317-331 and the returned body: what the call answers with
ResultOf(l, x) ==
  [trades       |-> l.trades,
   equity_curve |-> l.equity_curve,
   sharpe_fallback |-> SharpeFallback(l.equity_curve),
   win_rate     |-> WinRate(l.wins, l.completed_trades),
   total_return |-> TotalReturn(l.equity_curve, x.initial_capital),
   num_trades   |-> l.completed_trades]

NoResult == <<>>

\* the inputs of one invocation over the closes cs
RunInputs(cs, fee) ==
  { [closes |-> cs, signal |-> DiffFillna(pos), initial_capital |-> c, fee_rate |-> fee] :
      pos \in [1..Len(cs) -> {0, 1}], c \in Capitals }

PairInit ==
  /\ NoBacktest
  /\ NoStore
  /\ \E cs \in [1..PairBars -> PairPrices], fee \in FeeBps :
       inputs \in [Invocations -> RunInputs(cs, fee)]
  /\ runs = [i \in Invocations |-> [pc |-> "start", row |-> 0, result |-> NoResult]]
  /\ frames = [i \in Invocations |-> NoLocals]
  /\ clock = 0

\* lines 240-247
RunStart(i) ==
  /\ runs[i].pc = "start"
  /\ frames' = [frames EXCEPT ![FrameOf(i)] = FreshLocals(inputs[i].initial_capital)]
  /\ runs' = [runs EXCEPT ![i].pc = "loop", ![i].row = 1]
  /\ clock' = clock + 1
  /\ UNCHANGED <<backtestVars, storeVars, inputs>>

\* lines 249-293, one row
RunBar(i) ==
  /\ runs[i].pc = "loop"
  /\ runs[i].row <= Len(inputs[i].closes)
  /\ frames' = [frames EXCEPT ![FrameOf(i)] =
                  BarLocals(frames[FrameOf(i)], inputs[i], runs[i].row, clock)]
  /\ runs' = [runs EXCEPT ![i].row = @ + 1]
  /\ clock' = clock + 1
  /\ UNCHANGED <<backtestVars, storeVars, inputs>>

\* lines 295-331 and the return
RunEnd(i) ==
  /\ runs[i].pc = "loop"
  /\ runs[i].row > Len(inputs[i].closes)
  /\ LET l == EndLocals(frames[FrameOf(i)], inputs[i], clock)
     IN  /\ frames' = [frames EXCEPT ![FrameOf(i)] = l]
         /\ runs' = [runs EXCEPT ![i].pc = "done",
                                 ![i].result = ResultOf(l, inputs[i])]
  /\ clock' = clock + 1
  /\ UNCHANGED <<backtestVars, storeVars, inputs>>

PairNext ==
  \E i \in Invocations : RunStart(i) \/ RunBar(i) \/ RunEnd(i)

PairSpec == PairInit /\ [][PairNext]_vars

\* the same call with nothing else running: the locals after row k - 1 ...
RECURSIVE AloneFrom(_, _, _)
AloneFrom(l, x, k) ==
  IF k > Len(x.closes) THEN EndLocals(l, x, k)
  ELSE AloneFrom(BarLocals(l, x, k, k), x, k + 1)

\* ... and its answer
Alone(x) == ResultOf(AloneFrom(FreshLocals(x.initial_capital), x, 1), x)

----------------------------------------------------------------------------
(* The strategy-profile endpoints (lines 458-600) on the strategy_profiles *)
(* table.  The handlers are plain functions, which the framework runs on   *)
(* worker threads, so two requests can be in progress at once: a create or *)
(* a duplicate reads the table and commits its insert in a later step.     *)
(* Delete, rename and move are taken in one step; such a step is the same *)
(* whichever idle client sends it, and is attributed to the first idle one.*)
(* A name is the sequence of its space-separated words.                    *)

Clients == {1, 2}

MaxProfiles == 3

\* names a client may send to create
CreateNames == {<<"A">>, <<"A", "(Copy)">>}

\* names a client may send to rename, the empty one among them
RenameNames == {<<>>, <<"B">>}

Symbols == {"AAPL"}

Directions == {"up", "down", "left"}

\* str(suffix)
Numerals == <<"1", "2", "3", "4", "5", "6", "7", "8", "9">>

IdleCall == [op |-> "none", pc |-> "idle", id |-> 0, name |-> <<>>, symbol |-> "",
             max_order |-> 0]

\* the answer a client gets
Answer(code, detail) == [status |-> code, detail |-> detail]

\* the last step answered nobody
NoAnswer == [status |-> 0, detail |-> ""]

\* the client a one-step request is attributed to
Sender(t) ==
  /\ calls[t].pc = "idle"
  /\ \A u \in Clients : calls[u].pc = "idle" => t <= u

StoreInit ==
  /\ NoBacktest
  /\ NoPair
  /\ profiles = {}
  /\ next_id = 1
  /\ calls = [t \in Clients |-> IdleCall]
  /\ reply = NoAnswer

Names(ps) == {q.name : q \in ps}

Ids(ps) == {q.id : q \in ps}

ById(ps, id) == CHOOSE q \in ps : q.id = id

\* func.max(StrategyProfile.order_index) ... .scalar() or 0
MaxOrder(ps) ==
  IF ps = {} THEN 0
  ELSE CHOOSE m \in {q.order_index : q \in ps} :
         \A q \in ps : q.order_index <= m

\* a name column without the unique constraint
UniqueViolation_Unchecked(name, others) == FALSE

\* strategy_profile.py line 14, unique=True: the commit raises IntegrityError
\* when another row holds the name
UniqueViolation(name, others) == name \in Names(others)

\* the insert of db.add / db.commit: the next key, the order_index computed
\* from the maximum read earlier
Inserted(ps, id, c) ==
  ps \cup {[id |-> id, name |-> c.name, symbol |-> c.symbol,
            order_index |-> c.max_order + 1]}

\* ids are handed out while the bound allows
MayInsert ==
  next_id + Cardinality({u \in Clients : calls[u].op \in {"create", "duplicate"}})
    <= MaxProfiles

\* line 465: the answer of the name check, NoAnswer when it passes
CreateCheck(ps, name) ==
  IF name \in Names(ps)
  THEN Answer(400, "A profile with this name already exists.")
  ELSE NoAnswer

\* lines 465-468: the name check and the read of the maximum
CreateRequest(t, name, sym) ==
  /\ calls[t].pc = "idle"
  /\ MayInsert
  /\ IF CreateCheck(profiles, name) # NoAnswer
     THEN /\ reply' = CreateCheck(profiles, name)
          /\ UNCHANGED calls
     ELSE /\ calls' = [calls EXCEPT ![t] =
                         [IdleCall EXCEPT !.op = "create", !.pc = "commit",
                                          !.name = name, !.symbol = sym,
                                          !.max_order = MaxOrder(profiles)]]
          /\ reply' = NoAnswer
  /\ UNCHANGED <<backtestVars, pairVars, profiles, next_id>>

CreateBegin(t) ==
  \E name \in CreateNames, sym \in Symbols : CreateRequest(t, name, sym)

\* lines 470-484: the insert
CreateCommit(t) ==
  /\ calls[t].pc = "commit"
  /\ calls[t].op = "create"
  /\ IF UniqueViolation(calls[t].name, profiles)
     THEN /\ reply' = Answer(500, "IntegrityError")
          /\ UNCHANGED <<profiles, next_id>>
     ELSE /\ profiles' = Inserted(profiles, next_id, calls[t])
          /\ next_id' = next_id + 1
          /\ reply' = Answer(200, "saved")
  /\ calls' = [calls EXCEPT ![t] = IdleCall]
  /\ UNCHANGED <<backtestVars, pairVars>>

\* lines 558-563: "<name> (Copy)", then "<name> (Copy) 2", "<name> (Copy) 3", ...
RECURSIVE FreeName(_, _, _)
FreeName(base, suffix, taken) ==
  LET new_name == IF suffix = 1 THEN base ELSE base \o <<Numerals[suffix]>>
  IN  IF new_name \in taken THEN FreeName(base, suffix + 1, taken)
      ELSE new_name

\* lines 554-563: the original, the maximum and the free name are read
DuplicateRequest(t, id) ==
  /\ calls[t].pc = "idle"
  /\ MayInsert
  /\ IF id \in Ids(profiles)
     THEN LET original == ById(profiles, id)
          IN  /\ calls' = [calls EXCEPT ![t] =
                    [IdleCall EXCEPT
                       !.op = "duplicate", !.pc = "commit", !.id = id,
                       !.name = FreeName(original.name \o <<"(Copy)">>, 1,
                                         Names(profiles)),
                       !.symbol = original.symbol,
                       !.max_order = MaxOrder(profiles)]]
              /\ reply' = NoAnswer
     ELSE /\ reply' = Answer(404, "Profile not found")
          /\ UNCHANGED calls
  /\ UNCHANGED <<backtestVars, pairVars, profiles, next_id>>

DuplicateBegin(t) ==
  \E id \in 1..MaxProfiles : DuplicateRequest(t, id)

\* lines 564-578
DuplicateCommit(t) ==
  /\ calls[t].pc = "commit"
  /\ calls[t].op = "duplicate"
  /\ IF UniqueViolation(calls[t].name, profiles)
     THEN /\ reply' = Answer(500, "IntegrityError")
          /\ UNCHANGED <<profiles, next_id>>
     ELSE /\ profiles' = Inserted(profiles, next_id, calls[t])
          /\ next_id' = next_id + 1
          /\ reply' = Answer(200, "duplicated")
  /\ calls' = [calls EXCEPT ![t] = IdleCall]
  /\ UNCHANGED <<backtestVars, pairVars>>

\* lines 526-533
DeleteStrategy(t) ==
  /\ Sender(t)
  /\ \E id \in 1..MaxProfiles :
       IF id \in Ids(profiles)
       THEN /\ profiles' = {q \in profiles : q.id # id}
            /\ reply' = Answer(200, "deleted")
       ELSE /\ reply' = Answer(404, "Profile not found")
            /\ UNCHANGED profiles
  /\ UNCHANGED <<backtestVars, pairVars, next_id, calls>>

\* lines 536-549 on the rows ps: the empty name, the name check, the lookup
\* of the id, the update
RenameOutcome(ps, id, new_name) ==
  IF new_name = <<>>
  THEN [store |-> ps, answer |-> Answer(400, "Name cannot be empty")]
  ELSE IF new_name \in Names(ps)
  THEN [store |-> ps,
        answer |-> Answer(400, "A profile with this name already exists.")]
  ELSE IF id \notin Ids(ps)
  THEN [store |-> ps, answer |-> Answer(404, "Profile not found")]
  ELSE [store |-> { IF q.id = id THEN [q EXCEPT !.name = new_name] ELSE q : q \in ps },
        answer |-> Answer(200, "renamed")]

RenameStrategy(t) ==
  /\ Sender(t)
  /\ \E id \in 1..MaxProfiles, new_name \in RenameNames :
       LET outcome == RenameOutcome(profiles, id, new_name)
       IN  /\ profiles' = outcome.store
           /\ reply' = outcome.answer
  /\ UNCHANGED <<backtestVars, pairVars, next_id, calls>>

\* order_by(order_index.asc(), id.asc())
Before(a, b) ==
  \/ a.order_index < b.order_index
  \/ a.order_index = b.order_index /\ a.id < b.id

RECURSIVE Items(_)
Items(ps) ==
  IF ps = {} THEN <<>>
  ELSE LET first == CHOOSE a \in ps : \A b \in ps \ {a} : Before(a, b)
       IN  <<first>> \o Items(ps \ {first})

\* a move that swaps with the end of the list instead of the neighbour
SwapIndex_ToEnd(index, direction, n) == IF direction = "up" THEN 1 ELSE n

\* line 593: swap_index = index - 1 if direction == "up" else index + 1
SwapIndex(index, direction, n) == IF direction = "up" THEN index - 1 ELSE index + 1

\* lines 589-599: the rows and the answer of the move of a stored id in a
\* valid direction
Moved(ps, id, direction) ==
  LET items == Items(ps)
      index == CHOOSE i \in 1..Len(items) : items[i].id = id
      swap_index == SwapIndex(index, direction, Len(items))
  IN  IF \/ direction = "up" /\ index = 1
         \/ direction = "down" /\ index = Len(items)
      THEN [store |-> ps, answer |-> Answer(200, "nochange")]
      ELSE [store |-> { IF q.id = items[index].id
                        THEN [q EXCEPT !.order_index = items[swap_index].order_index]
                        ELSE IF q.id = items[swap_index].id
                        THEN [q EXCEPT !.order_index = items[index].order_index]
                        ELSE q : q \in ps },
            answer |-> Answer(200, "reordered")]

\* lines 581-600 on the rows ps
MoveOutcome(ps, id, direction) ==
  IF direction \notin {"up", "down"}
  THEN [store |-> ps, answer |-> Answer(400, "Invalid direction")]
  ELSE IF id \notin Ids(ps)
  THEN [store |-> ps, answer |-> Answer(404, "Profile not found")]
  ELSE Moved(ps, id, direction)

MoveStrategy(t) ==
  /\ Sender(t)
  /\ \E id \in 1..MaxProfiles, direction \in Directions :
       LET outcome == MoveOutcome(profiles, id, direction)
       IN  /\ profiles' = outcome.store
           /\ reply' = outcome.answer
  /\ UNCHANGED <<backtestVars, pairVars, next_id, calls>>

StoreNext ==
  \E t \in Clients :
    \/ CreateBegin(t)
    \/ CreateCommit(t)
    \/ DuplicateBegin(t)
    \/ DuplicateCommit(t)
    \/ DeleteStrategy(t)
    \/ RenameStrategy(t)
    \/ MoveStrategy(t)

StoreSpec == StoreInit /\ [][StoreNext]_vars

----------------------------------------------------------------------------
(* Properties *)

\* ComputeSignals has run: position and signal are those of this request
SignalsComputed == row >= 1

\* the run is past the loop and the end-of-run liquidation
LoopDone == pc \in {"metrics", "persist", "done"}

\* e is x rounded to 2 decimals (a multiple of a cent nearest to x)
IsRounded2(x, e) ==
  /\ e % (Scale \div 100) = 0
  /\ 2 * Abs(e - x) <= Scale \div 100

\* C1: the signal series is the difference of the position series with an
\* implied prior position of 0: signal[1] = position[1] - 0 and
\* signal[k] = position[k] - position[k-1] afterwards, so a series that starts
\* long carries a +1 signal on its first bar.
C1_SignalIsDiffFromFlat ==
  SignalsComputed =>
    /\ Len(signal) = Len(position)
    /\ \A k \in 1..Len(position) :
         signal[k] = position[k] - (IF k = 1 THEN 0 ELSE position[k-1])

\* C2: a BuyHold run with fee_rate 0 whose first close is positive and no
\* greater than initial_capital records exactly one BUY at the first bar for
\* floor(initial_capital / close[1]) shares and one forced SELL of the same
\* shares at the last bar, and reports num_trades = 1.
C2_BuyHoldRoundTrip ==
  ( /\ pc = "done"
    /\ req.strategy_type = "buyhold"
    /\ req.fee_rate = 0
    /\ closes[1] > 0
    /\ closes[1] <= req.initial_capital )
  =>
    /\ Len(trades) = 2
    /\ trades[1].side = "BUY"
    /\ trades[1].timestamp = 1
    /\ trades[1].price = closes[1]
    /\ trades[1].shares = req.initial_capital \div closes[1]
    /\ trades[2].side = "SELL"
    /\ trades[2].timestamp = Len(closes)
    /\ trades[2].price = closes[Len(closes)]
    /\ trades[2].shares = trades[1].shares
    /\ metrics.num_trades = 1

\* C3: for RSI with oversold < overbought the position carries state across
\* bars: 1 when rsi < oversold, 0 when rsi > overbought, and the previous
\* bar's position (flat before the first bar) in between.
C3_RsiHysteresis ==
  ( /\ SignalsComputed
    /\ req.strategy_type = "rsi"
    /\ req.rsi_oversold < req.rsi_overbought )
  =>
    \A k \in 1..Len(position) :
      position[k] =
        IF rsi[k][1] < req.rsi_oversold * rsi[k][2] THEN 1
        ELSE IF rsi[k][1] > req.rsi_overbought * rsi[k][2] THEN 0
        ELSE IF k = 1 THEN 0 ELSE position[k-1]

\* the step is the end-of-run liquidation of an open position
LiquidationStep == pc = "loop" /\ row > Len(history) /\ shares > 0

\* what the liquidation does apart from the value of the last equity point
LiquidationEffect ==
  LET last == history[Len(history)]
      sold == trades'[Len(trades')]
      n    == Len(equity_curve)
  IN  /\ cash' = cash + shares * last.close * Scale
                      - shares * last.close * req.fee_rate
      /\ Len(trades') = Len(trades) + 1
      /\ SubSeq(trades', 1, Len(trades)) = trades
      /\ sold.side = "SELL"
      /\ sold.timestamp = last.timestamp
      /\ sold.price = last.close
      /\ sold.shares = shares
      /\ shares' = 0
      /\ Len(equity_curve') = n
      /\ \A k \in 1..(n - 1) : equity_curve'[k] = equity_curve[k]
      /\ equity_curve'[n].timestamp = equity_curve[n].timestamp

\* C4 as stated: forced liquidation sells all held shares at the last close
\* with the sell fee, appends a SELL at the last bar as the final trade, sets
\* shares to 0, adds no equity point, and overwrites the last equity point
\* with the post-liquidation cash.
C4_LiquidationExactCash ==
  [][LiquidationStep =>
       /\ LiquidationEffect
       /\ equity_curve'[Len(equity_curve)].equity = cash']_vars

\* C4 amended: as above, the last equity point being the post-liquidation
\* cash rounded to 2 decimals.
C4_LiquidationRoundedCash ==
  [][LiquidationStep =>
       /\ LiquidationEffect
       /\ IsRounded2(cash', equity_curve'[Len(equity_curve)].equity)]_vars

\* a position bought on the last bar was liquidated on that same bar
C4_Witness ==
  /\ pc = "metrics"
  /\ Len(trades) >= 2
  /\ trades[Len(trades) - 1].side = "BUY"
  /\ trades[Len(trades)].side = "SELL"
  /\ trades[Len(trades) - 1].timestamp = history[Len(history)].timestamp
  /\ trades[Len(trades)].timestamp = history[Len(history)].timestamp
  /\ shares = 0
  /\ equity_curve[Len(equity_curve)].equity # cash

\* a SELL record was appended by the step
SellStep ==
  /\ Len(trades') = Len(trades) + 1
  /\ trades'[Len(trades')].side = "SELL"

\* C5: every SELL, signalled or forced, closes the position opened by the
\* preceding BUY: completed_trades grows by exactly 1, and wins grows by 1
\* exactly when the sell price is strictly greater than that BUY's price,
\* otherwise wins is unchanged.
C5_WinAccounting ==
  [][SellStep =>
       /\ trades[Len(trades)].side = "BUY"
       /\ completed_trades' = completed_trades + 1
       /\ wins' = wins + (IF trades'[Len(trades')].price > trades[Len(trades)].price
                          THEN 1 ELSE 0)]_vars

\* a signalled SELL above the entry price was counted as a win
C5_Witness ==
  /\ pc = "loop"
  /\ Len(trades) = 2
  /\ trades[2].side = "SELL"
  /\ trades[2].price > trades[1].price
  /\ completed_trades = 1
  /\ wins = 1

\* a BUY record was appended by the step
BuyStep ==
  /\ Len(trades') = Len(trades) + 1
  /\ trades'[Len(trades')].side = "BUY"

\* C6: fees are charged on gross notional on both sides: a BUY at close p
\* with pre-trade cash c buys n = floor(c / p) shares and debits
\* n * p * (1 + fee_rate); a SELL of n shares at close p credits
\* n * p * (1 - fee_rate); buying 10 shares at 100 with fee_rate 0.01 (100
\* basis points) debits 1010.
C6_FeesOnNotional ==
  /\ [](BuyDebit(10, 100, 100) = 1010 * Scale)
  /\ [][LET t == trades'[Len(trades')]
        IN  /\ BuyStep =>
                 /\ t.shares = cash \div (t.price * Scale)
                 /\ cash - cash' = t.shares * t.price * (Scale + req.fee_rate)
            /\ SellStep =>
                 /\ t.shares = shares
                 /\ cash' - cash = t.shares * t.price * (Scale - req.fee_rate)]_vars

\* a BUY and a SELL were both charged a non-zero fee
C6_Witness ==
  /\ req.fee_rate > 0
  /\ Len(trades) = 2
  /\ trades[1].price > 0
  /\ trades[2].price > 0
  /\ cash = req.initial_capital * Scale
            - trades[1].shares * trades[1].price * (Scale + req.fee_rate)
            + trades[2].shares * trades[2].price * (Scale - req.fee_rate)

\* the next bar carries a +1 signal while flat and not one share is affordable
UnaffordableBuy ==
  /\ pc = "loop"
  /\ row <= Len(history)
  /\ signal[row] = 1
  /\ shares = 0
  /\ history[row].close > 0
  /\ cash \div (history[row].close * Scale) = 0

\* the next bar carries a -1 signal while no shares are held
SellWhileFlat ==
  /\ pc = "loop"
  /\ row <= Len(history)
  /\ signal[row] = -1
  /\ shares = 0

\* the ledger and the trade list are left alone and one equity point is added
NoTradeEffect ==
  /\ trades' = trades
  /\ cash' = cash
  /\ shares' = shares
  /\ entry_price' = entry_price
  /\ entry_shares' = entry_shares
  /\ completed_trades' = completed_trades
  /\ wins' = wins
  /\ Len(equity_curve') = Len(equity_curve) + 1
  /\ equity_curve'[Len(equity_curve')].timestamp = history[row].timestamp

\* C7 as stated: an unaffordable BUY records no trade, leaves cash, shares
\* and entry price unchanged and adds an equity point equal to cash; a -1
\* signal while no shares are held records no SELL and no completed trade.
C7_UnaffordableBuyExactCash ==
  [][/\ UnaffordableBuy =>
          /\ NoTradeEffect
          /\ equity_curve'[Len(equity_curve')].equity = cash
     /\ SellWhileFlat =>
          /\ trades' = trades
          /\ completed_trades' = completed_trades]_vars

\* C7 amended: as above, the equity point being cash rounded to 2 decimals.
C7_UnaffordableBuyRoundedCash ==
  [][/\ UnaffordableBuy =>
          /\ NoTradeEffect
          /\ IsRounded2(cash, equity_curve'[Len(equity_curve')].equity)
     /\ SellWhileFlat =>
          /\ trades' = trades
          /\ completed_trades' = completed_trades]_vars

\* an unaffordable +1 signal and a later -1 signal were processed without a trade
C7_Witness ==
  /\ pc = "loop"
  /\ trades = <<>>
  /\ shares = 0
  /\ cash = req.initial_capital * Scale
  /\ \E j, m \in 1..(row - 1) :
       /\ j < m
       /\ signal[j] = 1
       /\ history[j].close > req.initial_capital
       /\ signal[m] = -1
       /\ equity_curve[j].equity = cash
       /\ equity_curve[m].equity = cash

\* one point per processed bar, in bar order; trades in bar order
CurveShape ==
  SignalsComputed =>
    /\ Len(equity_curve) = row - 1
    /\ LoopDone => Len(equity_curve) = Len(history)
    /\ \A k \in 1..Len(equity_curve) :
         equity_curve[k].timestamp = history[k].timestamp
    /\ \A k \in 2..Len(trades) : trades[k-1].timestamp <= trades[k].timestamp

\* a bar of the loop was processed by the step
LoopStep == pc = "loop" /\ row <= Len(history) /\ pc' = "loop"

\* all points but the last are never changed
PointsKept ==
  \A k \in 1..(Len(equity_curve) - 1) : equity_curve'[k] = equity_curve[k]

\* C8 as stated: the equity curve has exactly one point per bar of the
\* trimmed series, in bar order, trade or no trade; every point except
\* possibly the last equals cash + shares_held * close after that bar's
\* trade; trades are listed in non-decreasing bar order.
C8_CurveExactEquity ==
  /\ []CurveShape
  /\ [][/\ PointsKept
        /\ LoopStep =>
             /\ Len(equity_curve') = Len(equity_curve) + 1
             /\ equity_curve'[row].timestamp = history[row].timestamp
             /\ equity_curve'[row].equity
                  = cash' + shares' * history[row].close * Scale]_vars

\* C8 amended: as above, every point except possibly the last being
\* cash + shares_held * close rounded to 2 decimals.
C8_CurveRoundedEquity ==
  /\ []CurveShape
  /\ [][/\ PointsKept
        /\ LoopStep =>
             /\ Len(equity_curve') = Len(equity_curve) + 1
             /\ equity_curve'[row].timestamp = history[row].timestamp
             /\ IsRounded2(cash' + shares' * history[row].close * Scale,
                           equity_curve'[row].equity)]_vars

\* a finished run with bars without a trade, a bar with shares held at a
\* price other than the entry price, and fees
C8_Witness ==
  /\ pc = "done"
  /\ req.fee_rate > 0
  /\ Len(equity_curve) >= 4
  /\ Len(trades) = 2
  /\ trades[1].timestamp < trades[2].timestamp
  /\ trades[2].price # trades[1].price

\* the ordering the request's own strategy requires is violated
Unordered(r) ==
  \/ r.strategy_type = "sma" /\ r.short_window >= r.long_window
  \/ r.strategy_type = "ema" /\ r.ema_fast >= r.ema_slow
  \/ r.strategy_type = "macd" /\ r.macd_fast >= r.macd_slow

InvalidParameterDetails ==
  { "short_window must be less than long_window for SMA.",
    "ema_fast must be less than ema_slow.",
    "macd_fast must be less than macd_slow." }

\* nothing was fetched, computed, simulated or persisted
NothingDone ==
  /\ closes = <<>>
  /\ history = <<>>
  /\ position = <<>>
  /\ signal = <<>>
  /\ row = 0
  /\ trades = <<>>
  /\ equity_curve = <<>>
  /\ metrics = NoMetrics
  /\ db = <<>>

\* C9: a request whose own strategy's ordering is violated (SMA short >= long,
\* EMA fast >= slow, MACD fast >= slow) fails with InvalidParameters before
\* bars are fetched, before any signal or ledger computation and without a
\* record being persisted; the ordering of another strategy's parameters
\* never rejects a request.
C9_InvalidParametersFirst ==
  /\ (pc # "validate" /\ Unordered(req)) =>
       /\ pc = "error"
       /\ response.status = 400
       /\ response.detail \in InvalidParameterDetails
       /\ NothingDone
  /\ response.detail \in InvalidParameterDetails =>
       /\ Unordered(req)
       /\ req.strategy_type = "sma" <=> response.detail
            = "short_window must be less than long_window for SMA."
       /\ req.strategy_type = "ema" <=> response.detail
            = "ema_fast must be less than ema_slow."
       /\ req.strategy_type = "macd" <=> response.detail
            = "macd_fast must be less than macd_slow."
  /\ (pc # "validate" /\ ~Unordered(req)) =>
       response.detail \notin InvalidParameterDetails

\* an EMA request with unordered spans was rejected at validation
C9_Witness ==
  /\ pc = "error"
  /\ req.strategy_type = "ema"
  /\ req.ema_fast >= req.ema_slow
  /\ response = [status |-> 400, detail |-> "ema_fast must be less than ema_slow."]
  /\ NothingDone

\* C10: when warm-up trimming removes every bar of a non-empty series, the
\* run fails with InsufficientData, a declared client error, before the
\* simulation loop and the metrics step start, and nothing is persisted.
C10_InsufficientData ==
  ( /\ SignalsComputed
    /\ closes # <<>>
    /\ history = <<>> )
  =>
    /\ pc = "error"
    /\ response.status = 400
    /\ response.detail = "InsufficientData"
    /\ db = <<>>

\* C11: a strategy tag outside {sma, ema, rsi, macd, buyhold} is rejected as
\* UnsupportedStrategy at the validation step, with the ordering checks,
\* before anything is fetched; the error reported for it is the same
\* whatever the bar series, an empty or unavailable one included.
C11_UnsupportedAtValidation ==
  (pc # "validate" /\ req.strategy_type \notin Strategies) =>
    /\ pc = "error"
    /\ response = [status |-> 400, detail |-> "Unsupported strategy_type."]
    /\ NothingDone

\* C12: the per-bar loop, the forced liquidation and the metrics step raise
\* no error on a non-empty trimmed series with closes >= 0 (0 included), any
\* signal series, initial_capital > 0 and fee_rate >= 0.
C12_SimulatorTotal ==
  (SignalsComputed /\ history # <<>>) => pc # "error"

\* C13: win_rate is wins / completed_trades when completed_trades > 0 and 0
\* otherwise, the reported num_trades is completed_trades (closed round
\* trips, not trade records), wins <= completed_trades in every state, and
\* win_rate lies in [0, 1].
C13_WinRate ==
  /\ 0 <= wins
  /\ wins <= completed_trades
  /\ metrics # NoMetrics =>
       /\ metrics.num_trades = completed_trades
       /\ metrics.win_rate[2] > 0
       /\ IF completed_trades > 0
          THEN metrics.win_rate[1] * completed_trades = wins * metrics.win_rate[2]
          ELSE metrics.win_rate[1] = 0
       /\ 0 <= metrics.win_rate[1]
       /\ metrics.win_rate[1] <= metrics.win_rate[2]
  /\ pc = "done" =>
       /\ db[1].num_trades = completed_trades
       /\ 0 <= db[1].win_rate
       /\ db[1].win_rate <= 1000

\* a finished run with one won round trip: two trade records, num_trades 1
C13_Witness ==
  /\ pc = "done"
  /\ Len(trades) = 2
  /\ completed_trades = 1
  /\ wins = 1
  /\ metrics.win_rate = <<1, 1>>
  /\ db[1].num_trades = 1
  /\ db[1].win_rate = 1000

\* C14: when the equity curve has 1 or 2 points (fewer than 2 return
\* observations) or the equity never changes (zero deviation, as when no
\* trade occurs), the reported Sharpe ratio is the fallback 0.0.
C14_SharpeFallback ==
  /\ metrics # NoMetrics =>
       ((\/ Len(equity_curve) <= 2
         \/ \A k \in 1..Len(equity_curve) :
              equity_curve[k].equity = equity_curve[1].equity)
        => metrics.sharpe_fallback)
  /\ pc = "done" => db[1].sharpe_fallback = metrics.sharpe_fallback

\* a finished two-bar run whose single return is not zero
C14_Witness ==
  /\ pc = "done"
  /\ Len(equity_curve) = 2
  /\ equity_curve[1].equity > 0
  /\ equity_curve[2].equity # equity_curve[1].equity
  /\ db[1].sharpe_fallback

C18_CashNeverNegative == cash >= 0

\* C19: shares >= 0 in every state; shares > 0 exactly when an entry price
\* is recorded; the trade list alternates BUY, SELL from a BUY; every SELL
\* sells the share count of the BUY before it; and when the run has ended
\* the BUYs, the SELLs and completed_trades are equal in number.
C19_SinglePosition ==
  /\ shares >= 0
  /\ (shares > 0) <=> (entry_price # None)
  /\ \A k \in 1..Len(trades) :
       /\ trades[k].side = (IF k % 2 = 1 THEN "BUY" ELSE "SELL")
       /\ k % 2 = 0 => trades[k].shares = trades[k-1].shares
  /\ LoopDone =>
       /\ Len(trades) = 2 * completed_trades
       /\ Cardinality({k \in 1..Len(trades) : trades[k].side = "BUY"})
            = completed_trades

C16_Isolated ==
  \A i \in Invocations :
    runs[i].pc = "done" => runs[i].result = Alone(inputs[i])

\* both invocations in the middle of their loops, holding different
\* positions bought from different capitals
C16_Witness ==
  /\ inputs[1].initial_capital # inputs[2].initial_capital
  /\ runs[1].pc = "loop"
  /\ runs[2].pc = "loop"
  /\ runs[1].row = 3
  /\ runs[2].row = 3
  /\ frames[1].shares > 0
  /\ frames[2].shares > 0
  /\ frames[1].shares # frames[2].shares

\* C20: starting from an empty store, after any sequence of create,
\* duplicate, delete and move requests no two stored profiles have the same
\* order_index, two create or duplicate requests interleaving between the
\* read of the maximum order_index and the commit of the insert included.
C20_OrderIndexUnique ==
  \A a \in profiles : \A b \in profiles :
    a.id # b.id => a.order_index # b.order_index

\* C21: after any sequence of create, rename, duplicate and delete requests
\* the stored names are pairwise distinct; a create or a rename to a stored
\* name (the profile's own current name and a rename of an unknown id
\* included) is answered 400, and a step answered 400 leaves the store as
\* it was.
C21_NamesUnique ==
  /\ [](/\ \A a \in profiles : \A b \in profiles :
             a.id # b.id => a.name # b.name
        /\ \A a \in profiles :
             /\ CreateCheck(profiles, a.name).status = 400
             /\ \A id \in 1..(MaxProfiles + 1) :
                  /\ RenameOutcome(profiles, id, a.name).answer.status = 400
                  /\ RenameOutcome(profiles, id, a.name).store = profiles)
  /\ [][reply'.status = 400 => profiles' = profiles]_vars

\* a request was just refused for its name while a renamed profile and
\* another one are stored
C21_Witness ==
  /\ reply = [status |-> 400, detail |-> "A profile with this name already exists."]
  /\ Cardinality(profiles) >= 2
  /\ \E a \in profiles : a.name = <<"B">>

\* the k-th name tried for a copy of the profile named n
CopyName(n, k) ==
  IF k = 1 THEN n \o <<"(Copy)">> ELSE n \o <<"(Copy)", Numerals[k]>>

\* C22: a duplicate of a stored profile named N stores one new row under
\* the first of "N (Copy)", "N (Copy) 2", "N (Copy) 3", ... that is not
\* stored, with the other fields of the original and an order_index above
\* every stored one; a duplicate of an unknown id is answered 404 and
\* changes nothing.
C22_DuplicateFreshCopy ==
  [][\A t \in Clients :
       /\ \A id \in 1..MaxProfiles :
            (DuplicateRequest(t, id) /\ ~(\E q \in profiles : q.id = id))
              => (reply'.status = 404 /\ profiles' = profiles)
       /\ DuplicateCommit(t) =>
            \A original \in profiles :
              original.id = calls[t].id =>
            \E copy \in profiles' :
              /\ copy \notin profiles
              /\ profiles' = profiles \cup {copy}
              /\ \E k \in 1..(MaxProfiles + 1) :
                   /\ copy.name = CopyName(original.name, k)
                   /\ \A j \in 1..(k - 1) :
                        \E q \in profiles : q.name = CopyName(original.name, j)
              /\ copy.symbol = original.symbol
              /\ \A q \in profiles : copy.order_index > q.order_index]_vars

\* place of the row q in the listing of ps by (order_index, id)
ListingPlace(q, ps) ==
  1 + Cardinality({r \in ps : \/ r.order_index < q.order_index
                              \/ r.order_index = q.order_index /\ r.id < q.id})

OrderDistinct(ps) ==
  \A a \in ps : \A b \in ps : a.id # b.id => a.order_index # b.order_index

\* what C23 says of the move of id in the given direction on the rows ps
MoveAsClaimed(ps, id, direction) ==
  LET outcome == MoveOutcome(ps, id, direction)
  IN  IF direction \notin {"up", "down"}
      THEN outcome.store = ps /\ outcome.answer.status = 400
      ELSE IF ~(\E q \in ps : q.id = id)
      THEN outcome.store = ps /\ outcome.answer.status = 404
      ELSE \E p \in ps :
             /\ p.id = id
             /\ LET k == ListingPlace(p, ps)
                IN  IF \/ direction = "up" /\ k = 1
                       \/ direction = "down" /\ k = Cardinality(ps)
                    THEN /\ outcome.store = ps
                         /\ outcome.answer = [status |-> 200, detail |-> "nochange"]
                    ELSE \E nb \in ps :
                           /\ ListingPlace(nb, ps)
                                = (IF direction = "up" THEN k - 1 ELSE k + 1)
                           /\ outcome.answer = [status |-> 200, detail |-> "reordered"]
                           /\ LET p2  == [p EXCEPT !.order_index = nb.order_index]
                                  nb2 == [nb EXCEPT !.order_index = p.order_index]
                              IN  /\ outcome.store = (ps \ {p, nb}) \cup {p2, nb2}
                                  /\ OrderDistinct(ps) =>
                                       /\ ListingPlace(p2, outcome.store)
                                            = ListingPlace(nb, ps)
                                       /\ ListingPlace(nb2, outcome.store) = k
                                       /\ direction = "up" =>
                                            MoveOutcome(outcome.store, id, "down").store = ps

\* C23: a move up or down exchanges the order_index of the profile and of
\* its neighbour in that direction in the listing by (order_index, id) and
\* changes nothing else; with distinct order_index values the two exchange
\* places, and a move up followed by a move down restores the listing; the
\* first moved up or the last moved down is answered nochange with nothing
\* modified; an invalid direction or an unknown id is rejected with the
\* store unchanged.
C23_MoveAdjacentSwap ==
  \A id \in 1..MaxProfiles : \A direction \in Directions :
    MoveAsClaimed(profiles, id, direction)

\* three profiles, just reordered, listed in another order than their ids
C23_Witness ==
  /\ reply = [status |-> 200, detail |-> "reordered"]
  /\ Cardinality(profiles) = 3
  /\ OrderDistinct(profiles)
  /\ \E a \in profiles : \E b \in profiles :
       a.id < b.id /\ a.order_index > b.order_index

====
